---- MODULE Spec2Model ----
(***************************************************************************)
(* State-machine model of stream_alert/rule_processor/parsers.py: the      *)
(* schema-driven parsers (JSON, CSV, key-value) and the log pattern        *)
(* matcher of ParserBase.                                                  *)
(*                                                                         *)
(* Text is a sequence of one-character strings.  An ordered mapping        *)
(* (OrderedDict) is a record [keys |-> sequence of names, types |->        *)
(* function from the names to their values].  A dict is a function whose   *)
(* domain is its key set.  The outcome of a call is a record               *)
(* [kind, recs, exc]: kind "false" is the value False, "list" a returned   *)
(* list (recs), "raise" an exception leaving the method (exc), "none" no   *)
(* call made yet.                                                          *)
(***************************************************************************)
EXTENDS Integers, Sequences, FiniteSets, TLC

VARIABLES
    schema,        \* self.schema of the parser instance
    options,       \* self.options of the parser instance
    data,          \* the argument of parse, as the caller sees it after the call
    result,        \* what the call returned (or raised)
    pc,            \* position of the call in progress
    fields,        \* KVParser.parse: the non-empty fields of the payload
    index,         \* KVParser.parse: position of the loop over fields (from 1)
    kv_payload,    \* KVParser.parse: the record being accumulated
    record,        \* matched_log_pattern: the record argument
    log_patterns,  \* matched_log_pattern: the log_patterns argument
    matched,       \* matched_log_pattern: what the call returned (or raised)
    schema0,       \* JSONParser: the schema the instance was constructed with
    data_in,       \* JSONParser: the argument of parse as it was before the call
    fresh_result,  \* JSONParser: what a new instance (schema0, options) returns
                   \* for the same argument
    calls          \* JSONParser: number of parse calls made on the instance

kvVars == <<fields, index, kv_payload>>
patVars == <<record, log_patterns, matched>>
jsonVars == <<schema0, data_in, fresh_result, calls>>
vars == <<schema, options, data, result, pc, kvVars, patVars, jsonVars>>

(***************************************************************************)
(* Bounds of the model.                                                    *)
(***************************************************************************)
MaxCsvLen == 5
MaxKvLen == 7
MaxValueLen == 2
MaxGlobLen == 2
MaxPatterns == 1
MaxRecords == 2
MaxCalls == 2

(***************************************************************************)
(* Generic helpers.                                                        *)
(***************************************************************************)
EmptyDict == [k \in {} |-> <<>>]

OrderedDictOf(keys, types) == [keys |-> keys, types |-> types]

NoResult == [kind |-> "none",  recs |-> <<>>, exc |-> ""]
ReturnFalse == [kind |-> "false", recs |-> <<>>, exc |-> ""]
ReturnList(recs) == [kind |-> "list", recs |-> recs, exc |-> ""]
Raise(exc) == [kind |-> "raise", recs |-> <<>>, exc |-> exc]

\* options.get(name, default)
OptionsGet(opts, name, default) ==
    IF name \in DOMAIN opts THEN opts[name] ELSE default

\* All texts over an alphabet up to a length.
TextsUpTo(alphabet, n) == UNION {[1..k -> alphabet] : k \in 0..n}

\* Index of the first occurrence of character c in s at or after i, 0 if none.
RECURSIVE FindChar(_, _, _)
FindChar(s, c, i) ==
    IF i > Len(s) THEN 0
    ELSE IF s[i] = c THEN i
    ELSE FindChar(s, c, i + 1)

\* str.split(sep) for a one-character sep: always at least one piece.
RECURSIVE StrSplit(_, _)
StrSplit(s, sep) ==
    LET i == FindChar(s, sep, 1)
    IN  IF i = 0 THEN <<s>>
        ELSE <<SubSeq(s, 1, i - 1)>> \o StrSplit(SubSeq(s, i + 1, Len(s)), sep)

\* filter(None, pieces): drop the empty strings.
RECURSIVE FilterNonEmpty(_)
FilterNonEmpty(pieces) ==
    IF pieces = <<>> THEN <<>>
    ELSE IF Head(pieces) = <<>> THEN FilterNonEmpty(Tail(pieces))
    ELSE <<Head(pieces)>> \o FilterNonEmpty(Tail(pieces))

(***************************************************************************)
(* ParserBase.matched_log_pattern                                          *)
(*                                                                         *)
(* A value of a record is [t |-> "str", s |-> text] or [t |-> "dict",      *)
(* m |-> function from field names to values].  log_patterns is the        *)
(* sequence of its items in iteration order; an item is                    *)
(* [field, t, patterns, sub]: t = "list" with the glob patterns,           *)
(* t = "dict" with the nested log_patterns (sub), t = "other" for a value  *)
(* that is neither.  The outcome is "True", "False" or the name of the     *)
(* exception that leaves the method.                                       *)
(***************************************************************************)
StrValue(s) == [t |-> "str", s |-> s]
DictValue(m) == [t |-> "dict", m |-> m]

\* fnmatch(value, pattern): * matches any run of characters, ? any single
\* character, any other character itself; the whole value must match (no
\* bracket occurs in the alphabet).
RECURSIVE fnmatch(_, _)
fnmatch(value, pattern) ==
    IF pattern = <<>> THEN value = <<>>
    ELSE IF Head(pattern) = "*"
         THEN \/ fnmatch(value, Tail(pattern))
              \/ (value # <<>> /\ fnmatch(Tail(value), pattern))
    ELSE IF Head(pattern) = "?"
         THEN value # <<>> /\ fnmatch(Tail(value), Tail(pattern))
    ELSE /\ value # <<>>
         /\ Head(value) = Head(pattern)
         /\ fnmatch(Tail(value), Tail(pattern))

\* all(pattern_result)
AllTrue(pattern_result) ==
    IF \A i \in 1..Len(pattern_result) : pattern_result[i] THEN "True" ELSE "False"

RECURSIVE matched_log_pattern(_, _)
RECURSIVE PatternLoop(_, _, _, _)

\* Lines 89-112: the loop over log_patterns.iteritems() from item i on,
\* pattern_result being the list built so far.
PatternLoop(rec, patterns, i, pattern_result) ==
    IF i > Len(patterns) THEN AllTrue(pattern_result)
    ELSE LET item == patterns[i]
         IN  IF item.t = "dict"
             THEN IF item.field \in DOMAIN rec
                  THEN matched_log_pattern(rec[item.field], item.sub)
                  ELSE "KeyError"
             ELSE IF item.t # "list"
                  THEN PatternLoop(rec, patterns, i + 1, pattern_result)
             ELSE IF item.field \notin DOMAIN rec
                  THEN PatternLoop(rec, patterns, i + 1, pattern_result)
             ELSE IF rec[item.field].t # "str" /\ item.patterns # <<>>
                  THEN "TypeError"
             ELSE PatternLoop(rec, patterns, i + 1,
                      Append(pattern_result,
                             \E k \in 1..Len(item.patterns) :
                                 fnmatch(rec[item.field].s, item.patterns[k])))

\* Lines 81-112.
matched_log_pattern(value, patterns) ==
    IF ~(patterns # <<>> /\ value.t = "dict") THEN "False"
    ELSE PatternLoop(value.m, patterns, 1, <<>>)

PatternFields == {"f", "g"}
PatternValues == {StrValue(s) : s \in TextsUpTo({"a", "b"}, MaxValueLen)}
Globs == TextsUpTo({"a", "*", "?"}, MaxGlobLen)
GlobLists == UNION {[1..k -> Globs] : k \in 0..MaxPatterns}

ListItem(f, ps) == [field |-> f, t |-> "list", patterns |-> ps, sub |-> <<>>]
OtherItem(f) == [field |-> f, t |-> "other", patterns |-> <<>>, sub |-> <<>>]
DictItem(f, sub) == [field |-> f, t |-> "dict", patterns |-> <<>>, sub |-> sub]

\* The nested pattern sets: over the one field "f".
NestedPatternSets ==
    {<<>>} \cup {<<OtherItem("f")>>} \cup {<<ListItem("f", ps)>> : ps \in GlobLists}

ItemsFor(f) ==
    {OtherItem(f)} \cup {ListItem(f, ps) : ps \in GlobLists}
        \cup {DictItem(f, sub) : sub \in NestedPatternSets}

\* A dict iterates in an order of its own: both orders of two items.
PatternSets ==
    {<<>>} \cup {<<x>> : x \in ItemsFor("f") \cup ItemsFor("g")}
        \cup {<<x, y>> : x \in ItemsFor("f"), y \in ItemsFor("g")}
        \cup {<<y, x>> : x \in ItemsFor("f"), y \in ItemsFor("g")}

NestedRecords ==
    {EmptyDict} \cup {[k \in {"f"} |-> v] : v \in PatternValues}

FieldValues == PatternValues \cup {DictValue(m) : m \in NestedRecords}

PatternRecords ==
    UNION {[fs -> FieldValues] : fs \in SUBSET PatternFields}

InitPattern ==
    /\ schema = OrderedDictOf(<<>>, EmptyDict)
    /\ options = EmptyDict
    /\ data = <<>>
    /\ result = NoResult
    /\ pc = "match"
    /\ fields = <<>>
    /\ index = 0
    /\ kv_payload = EmptyDict
    /\ record \in PatternRecords
    /\ log_patterns \in PatternSets
    /\ matched = "none"
    /\ schema0 = schema
    /\ data_in = data
    /\ fresh_result = NoResult
    /\ calls = 0

MatchedLogPattern ==
    /\ pc = "match"
    /\ matched' = matched_log_pattern(DictValue(record), log_patterns)
    /\ pc' = "done"
    /\ UNCHANGED <<schema, options, data, result, kvVars, record, log_patterns, jsonVars>>

NextPattern == MatchedLogPattern

SpecPattern == InitPattern /\ [][NextPattern]_vars

\* The item is skipped by the loop: its value is not a list (nor a nested
\* pattern set), or its field is missing from the record.
PatternItemSkipped(item, rec) ==
    \/ item.t = "other"
    \/ item.t = "list" /\ item.field \notin DOMAIN rec

\* C4: the result is False when the pattern set is empty, and also when it is
\* not empty but every patterned field is skipped.
C4_AllSkippedIsFalse ==
    pc = "done" =>
        /\ log_patterns = <<>> => matched = "False"
        /\ (\A i \in 1..Len(log_patterns) : PatternItemSkipped(log_patterns[i], record))
              => matched = "False"

(***************************************************************************)
(* CSVParser                                                               *)
(***************************************************************************)
CSVDefaultDelimiter == ","

NewLine == "\n"

\* StringIO.StringIO(data) iterated line by line: the text is cut after every
\* newline, and a text that ends in a newline (or is empty) has no last,
\* empty, line.
CsvLines(text) ==
    LET pieces == StrSplit(text, NewLine)
    IN  IF pieces[Len(pieces)] = <<>>
        THEN SubSeq(pieces, 1, Len(pieces) - 1)
        ELSE pieces

\* csv.reader: one row per line; an empty line is the row [], any other line
\* is cut at every delimiter (no quote character occurs in the alphabet).
CsvRow(line, delimiter) ==
    IF line = <<>> THEN <<>> ELSE StrSplit(line, delimiter)

get_reader(text, opts) ==
    LET delimiter == OptionsGet(opts, "delimiter", CSVDefaultDelimiter)
        lines == CsvLines(text)
    IN  [i \in 1..Len(lines) |-> CsvRow(lines[i], delimiter)]

\* {key: row[index] for index, key in enumerate(self.schema)}
CsvRecord(row, sch) ==
    [key \in {sch.keys[i] : i \in 1..Len(sch.keys)} |->
        row[CHOOSE i \in 1..Len(sch.keys) : sch.keys[i] = key]]

\* A faulty variant of the row loop: a row of the wrong length is skipped and
\* the rows parsed so far are kept.
RECURSIVE CsvLoopSkipsBadRow(_, _, _)
CsvLoopSkipsBadRow(rows, sch, csv_payloads) ==
    IF rows = <<>> THEN ReturnList(csv_payloads)
    ELSE IF Len(Head(rows)) # Len(sch.keys)
         THEN CsvLoopSkipsBadRow(Tail(rows), sch, csv_payloads)
         ELSE CsvLoopSkipsBadRow(Tail(rows), sch,
                                 Append(csv_payloads, CsvRecord(Head(rows), sch)))

\* The loop over the reader's rows, csv_payloads being the list built so far.
RECURSIVE CsvLoop(_, _, _)
CsvLoop(rows, sch, csv_payloads) ==
    IF rows = <<>> THEN ReturnList(csv_payloads)
    ELSE IF Len(Head(rows)) # Len(sch.keys) THEN ReturnFalse
    ELSE CsvLoop(Tail(rows), sch, Append(csv_payloads, CsvRecord(Head(rows), sch)))

CSVParser_parse(text, sch, opts) == CsvLoop(get_reader(text, opts), sch, <<>>)

CsvAlphabet == {"a", ",", ";", NewLine}
CsvTexts == TextsUpTo(CsvAlphabet, MaxCsvLen)
CsvSchemas == {OrderedDictOf(ks, [k \in {ks[i] : i \in 1..Len(ks)} |-> "string"]) :
                 ks \in {<<"x">>, <<"x", "y">>, <<"y", "x">>}}
CsvOptions == {EmptyDict, [k \in {"delimiter"} |-> ";"]}

InitCSV ==
    /\ schema \in CsvSchemas
    /\ options \in CsvOptions
    /\ data \in CsvTexts
    /\ result = NoResult
    /\ pc = "csv"
    /\ fields = <<>>
    /\ index = 0
    /\ kv_payload = EmptyDict
    /\ record = EmptyDict
    /\ log_patterns = <<>>
    /\ matched = "none"
    /\ schema0 = schema
    /\ data_in = data
    /\ fresh_result = NoResult
    /\ calls = 0

CSVParse ==
    /\ pc = "csv"
    /\ result' = CSVParser_parse(data, schema, options)
    /\ pc' = "done"
    /\ UNCHANGED <<schema, options, data, kvVars, patVars, jsonVars>>

NextCSV == CSVParse

SpecCSV == InitCSV /\ [][NextCSV]_vars

\* C5: CSV parse is all-or-nothing over the rows of the payload, in order: a
\* row whose field count differs from the schema's size makes the result
\* False (no earlier row's record is returned); otherwise there is exactly one
\* record per row, in row order, the i-th schema name mapping to the row's
\* i-th field.
C5_CsvAllOrNothing ==
    pc = "done" =>
        LET rows == get_reader(data, options)
            n == Len(schema.keys)
        IN  IF \E r \in 1..Len(rows) : Len(rows[r]) # n
            THEN result = ReturnFalse
            ELSE /\ result.kind = "list"
                 /\ Len(result.recs) = Len(rows)
                 /\ \A r \in 1..Len(rows) :
                      /\ DOMAIN result.recs[r] = {schema.keys[i] : i \in 1..n}
                      /\ \A i \in 1..n : result.recs[r][schema.keys[i]] = rows[r][i]

\* A payload whose first row is well-formed and whose second row is not:
\* the call has returned False.
C5_Witness ==
    /\ pc = "done"
    /\ Len(schema.keys) = 2
    /\ LET rows == get_reader(data, options)
       IN  /\ Len(rows) = 2
           /\ Len(rows[1]) = 2
           /\ Len(rows[2]) = 1
    /\ result = ReturnFalse

\* C3: parse returns either False or a non-empty list of records, never an
\* empty list.
C3_ParseNeverReturnsEmptyList ==
    pc = "done" => (result.kind = "false" \/ (result.kind = "list" /\ Len(result.recs) > 0))

(***************************************************************************)
(* KVParser                                                                *)
(***************************************************************************)
KVDefaultSeparator == "="
KVDefaultDelimiter == " "

\* re.compile('.+{}.+'.format(separator)).match(field): some separator has at
\* least one character before it and one after it (no newline in the
\* alphabet; match anchors at the start only).
KvRegexMatch(field, separator) ==
    \E i \in 2..(Len(field) - 1) : field[i] = separator

\* A faulty variant of the duplicate-key branch: the value is stored under
\* the key taken from the data even when that key is already present.
KvStoreIgnoresDuplicate(payload, sch, i, key, value) ==
    (key :> value) @@ payload

\* Lines 361-366: where the value of a well-formed field is stored.
KvStore(payload, sch, i, key, value) ==
    IF key \in DOMAIN payload
    THEN (sch.keys[i] :> value) @@ payload
    ELSE (key :> value) @@ payload

KvAlphabet == {"a", "b", "=", " "}
KvTexts == TextsUpTo(KvAlphabet, MaxKvLen)
KvSchemas == {OrderedDictOf(ks, [k \in {ks[i] : i \in 1..Len(ks)} |-> "string"]) :
                ks \in {<< <<"a">> >>, << <<"a">>, <<"b">> >>, << <<"b">>, <<"a">> >>}}
KvOptions == {EmptyDict, [k \in {"delimiter"} |-> "b"]}

InitKV ==
    /\ schema \in KvSchemas
    /\ options \in KvOptions
    /\ data \in KvTexts
    /\ result = NoResult
    /\ pc = "kv"
    /\ fields = <<>>
    /\ index = 0
    /\ kv_payload = EmptyDict
    /\ record = EmptyDict
    /\ log_patterns = <<>>
    /\ matched = "none"
    /\ schema0 = schema
    /\ data_in = data
    /\ fresh_result = NoResult
    /\ calls = 0

\* Lines 343-355: split the payload, compare the field count to the schema.
KVParseSplit ==
    /\ pc = "kv"
    /\ LET delimiter == OptionsGet(options, "delimiter", KVDefaultDelimiter)
           fs == FilterNonEmpty(StrSplit(data, delimiter))
       IN  IF Len(fs) # Len(schema.keys)
           THEN /\ result' = ReturnFalse
                /\ pc' = "done"
                /\ UNCHANGED <<fields, index>>
           ELSE /\ fields' = fs
                /\ index' = 1
                /\ pc' = "kv_loop"
                /\ UNCHANGED result
    /\ UNCHANGED <<schema, options, data, kv_payload, patVars, jsonVars>>

\* Lines 356-368: one iteration of the loop over the fields.  A field that
\* matches the regex and holds the separator more than once makes
\* `key, value = field.split(separator)` raise ValueError, which the method
\* does not catch.
KVParseField ==
    /\ pc = "kv_loop"
    /\ index <= Len(fields)
    /\ LET separator == OptionsGet(options, "separator", KVDefaultSeparator)
           field == fields[index]
           pieces == StrSplit(field, separator)
       IN  IF KvRegexMatch(field, separator)
           THEN IF Len(pieces) # 2
                THEN /\ result' = Raise("ValueError")
                     /\ pc' = "done"
                     /\ UNCHANGED <<index, kv_payload>>
                ELSE /\ kv_payload' = KvStore(kv_payload, schema, index, pieces[1], pieces[2])
                     /\ index' = index + 1
                     /\ UNCHANGED <<result, pc>>
           ELSE /\ index' = index + 1
                /\ UNCHANGED <<result, pc, kv_payload>>
    /\ UNCHANGED <<schema, options, data, fields, patVars, jsonVars>>

\* Line 370: return [kv_payload]
KVParseReturn ==
    /\ pc = "kv_loop"
    /\ index > Len(fields)
    /\ result' = ReturnList(<<kv_payload>>)
    /\ pc' = "done"
    /\ UNCHANGED <<schema, options, data, kvVars, patVars, jsonVars>>

NextKV == KVParseSplit \/ KVParseField \/ KVParseReturn

SpecKV == InitKV /\ [][NextKV]_vars

\* The loop is at a field that passes the shape test and splits in two.
KvAtWellFormedField ==
    /\ pc = "kv_loop"
    /\ index <= Len(fields)
    /\ LET separator == OptionsGet(options, "separator", KVDefaultSeparator)
       IN  /\ KvRegexMatch(fields[index], separator)
           /\ Len(StrSplit(fields[index], separator)) = 2

KvKey == StrSplit(fields[index], OptionsGet(options, "separator", KVDefaultSeparator))[1]
KvValue == StrSplit(fields[index], OptionsGet(options, "separator", KVDefaultSeparator))[2]

\* C6: KV parse ends with False or with a list of exactly one record, never
\* with a raised exception (a field holding the separator more than once
\* included).
C6_KvNeverRaises ==
    pc = "done" => (result.kind = "false" \/ (result.kind = "list" /\ Len(result.recs) = 1))

\* C9 as stated: a well-formed field whose key is already in the record is
\* stored under the schema's name at the field's position, and the value of
\* the key's first occurrence stays in place; a key not yet present is stored
\* under the key from the data.
C9_DuplicateKeepsFirstValue ==
    [][KvAtWellFormedField =>
          IF KvKey \in DOMAIN kv_payload
          THEN /\ kv_payload'[schema.keys[index]] = KvValue
               /\ kv_payload'[KvKey] = kv_payload[KvKey]
          ELSE kv_payload' = (KvKey :> KvValue) @@ kv_payload]_vars

\* C9 amended: a well-formed field whose key is already in the record is
\* stored under the schema's name at the field's position, overwriting what
\* was under that name, and every other entry of the record is unchanged (so
\* the first occurrence's value stays unless the schema's name at that
\* position is the duplicated key itself); a key not yet present is stored
\* under the key from the data.
C9_DuplicateStoredUnderSchemaName ==
    [][KvAtWellFormedField =>
          IF KvKey \in DOMAIN kv_payload
          THEN /\ DOMAIN kv_payload' = DOMAIN kv_payload \cup {schema.keys[index]}
               /\ kv_payload'[schema.keys[index]] = KvValue
               /\ \A k \in DOMAIN kv_payload \ {schema.keys[index]} :
                      kv_payload'[k] = kv_payload[k]
          ELSE kv_payload' = (KvKey :> KvValue) @@ kv_payload]_vars

\* "a=a a=b" against the schema [a, b] has returned [{a: "a", b: "b"}].
C9_Witness ==
    /\ pc = "done"
    /\ data = <<"a", "=", "a", " ", "a", "=", "b">>
    /\ schema.keys = << <<"a">>, <<"b">> >>
    /\ options = EmptyDict
    /\ result = ReturnList(<< (<<"a">> :> <<"a">>) @@ (<<"b">> :> <<"b">>) >>)

(***************************************************************************)
(* JSONParser                                                              *)
(*                                                                         *)
(* A decoded JSON value is [t, v, m, items]: t its Python type, v the      *)
(* rendering of a scalar, m the dict of a "dict", items the elements of a  *)
(* "list".  A type descriptor of a schema is [t, keys]: a primitive tag,   *)
(* "list" for the marker [], or "dict" with the nested schema's field      *)
(* names.  The argument of parse is [text, valid, doc]: a str (text) that  *)
(* json.loads decodes to doc, or fails on (valid = FALSE), or an already   *)
(* decoded structure doc.                                                  *)
(***************************************************************************)
JStr(v) == [t |-> "string", v |-> v, m |-> EmptyDict, items |-> <<>>]
JInt(v) == [t |-> "integer", v |-> v, m |-> EmptyDict, items |-> <<>>]
JFloat(v) == [t |-> "float", v |-> v, m |-> EmptyDict, items |-> <<>>]
JBool(v) == [t |-> "boolean", v |-> v, m |-> EmptyDict, items |-> <<>>]
JNone == [t |-> "none", v |-> "None", m |-> EmptyDict, items |-> <<>>]
JList(items) == [t |-> "list", v |-> "", m |-> EmptyDict, items |-> items]
JDict(m) == [t |-> "dict", v |-> "", m |-> m, items |-> <<>>]

Primitive(tag) == [t |-> tag, keys |-> <<>>]
ListMarker == [t |-> "list", keys |-> <<>>]
NestedSchema(keys) == [t |-> "dict", keys |-> keys]

EmptyOrderedDict == OrderedDictOf(<<>>, EmptyDict)

SeqToSet(seq) == {seq[i] : i \in 1..Len(seq)}

\* self.schema.update({key: value}): a new key goes last, a known key keeps
\* its place.
OrderedDictUpdate(od, key, value) ==
    IF key \in DOMAIN od.types
    THEN [od EXCEPT !.types[key] = value]
    ELSE [keys |-> Append(od.keys, key), types |-> (key :> value) @@ od.types]

\* Lines 173-186: no branch is taken for a nested schema that is not empty,
\* and the function returns None.
default_optional_values(key) ==
    IF key.t = "string" THEN JStr("")
    ELSE IF key.t = "integer" THEN JInt("0")
    ELSE IF key.t = "float" THEN JFloat("0.0")
    ELSE IF key.t = "boolean" THEN JBool("False")
    ELSE IF key.t = "list" /\ key.keys = <<>> THEN JList(<<>>)
    ELSE IF key.t = "dict" /\ key.keys = <<>> THEN JDict(EmptyDict)
    ELSE JNone

\* Lines 188-194: the loop over optional_keys.iteritems() from item i on.  A
\* payload that is not a dict makes the membership test (or the item
\* assignment) raise TypeError after the schema update of that item.
RECURSIVE OptionalKeysLoop(_, _, _, _)
OptionalKeysLoop(sch, json_payload, optional_keys, i) ==
    IF i > Len(optional_keys.keys)
    THEN [schema |-> sch, payload |-> json_payload, exc |-> ""]
    ELSE LET key_name == optional_keys.keys[i]
             value_type == optional_keys.types[key_name]
             sch1 == OrderedDictUpdate(sch, key_name, value_type)
         IN  IF json_payload.t # "dict"
             THEN [schema |-> sch1, payload |-> json_payload, exc |-> "TypeError"]
             ELSE IF key_name \in DOMAIN json_payload.m
             THEN OptionalKeysLoop(sch1, json_payload, optional_keys, i + 1)
             ELSE OptionalKeysLoop(sch1,
                      [json_payload EXCEPT
                          !.m = (key_name :> default_optional_values(value_type)) @@ @],
                      optional_keys, i + 1)

\* jsonpath "$.k1,k2,...".find(json_payload): the values of the listed
\* fields the payload has, in the listed order.
RECURSIVE EnvelopeMatches(_, _)
EnvelopeMatches(json_payload, envelope_keys) ==
    IF envelope_keys = <<>> THEN <<>>
    ELSE LET rest == EnvelopeMatches(json_payload, Tail(envelope_keys))
         IN  IF json_payload.t = "dict" /\ Head(envelope_keys) \in DOMAIN json_payload.m
             THEN <<json_payload.m[Head(envelope_keys)]>> \o rest
             ELSE rest

\* dict(zip(envelope_keys, envelope_matches))
ZipDict(keys, values) ==
    LET n == IF Len(keys) < Len(values) THEN Len(keys) ELSE Len(values)
    IN  [k \in {keys[i] : i \in 1..n} |->
            values[CHOOSE i \in 1..n : keys[i] = k /\ \A j \in (i + 1)..n : keys[j] # k]]

\* The json_path option names the field whose elements are the records (the
\* path "<field>[*]"): the matches are the elements of the list under the
\* field; a value that is not a list is the only match.
JsonPathFind(json_payload, records_schema) ==
    IF json_payload.t = "dict" /\ records_schema \in DOMAIN json_payload.m
    THEN LET v == json_payload.m[records_schema]
         IN  IF v.t = "list" THEN v.items ELSE <<v>>
    ELSE <<>>

\* record.update({'stream_log_envelope': envelope})
WithEnvelope(rec, envelope) ==
    [rec EXCEPT !.m = ("stream_log_envelope" :> JDict(envelope)) @@ @]

\* Lines 196-220.  The matches are the payload's own nested records, so the
\* update of a match is an update of the payload.
ExtractRecords(sch, opts, json_payload) ==
    LET records_schema == OptionsGet(opts, "json_path", "")
    IN  IF records_schema = ""
        THEN [schema |-> sch, payload |-> json_payload,
              records |-> <<json_payload>>, exc |-> ""]
        ELSE LET envelope_schema == OptionsGet(opts, "envelope_keys", EmptyOrderedDict)
                 has_envelope == Len(envelope_schema.keys) > 0
                 sch1 == IF has_envelope
                         THEN OrderedDictUpdate(sch, "stream_log_envelope",
                                                NestedSchema(envelope_schema.keys))
                         ELSE sch
                 envelope == IF has_envelope
                             THEN ZipDict(envelope_schema.keys,
                                          EnvelopeMatches(json_payload, envelope_schema.keys))
                             ELSE EmptyDict
                 matches == JsonPathFind(json_payload, records_schema)
                 attach == DOMAIN envelope # {}
                 updated == [i \in 1..Len(matches) |->
                                IF attach THEN WithEnvelope(matches[i], envelope)
                                ELSE matches[i]]
                 payload1 == IF attach /\ matches # <<>>
                             THEN IF json_payload.m[records_schema].t = "list"
                                  THEN [json_payload EXCEPT
                                           !.m[records_schema].items = updated]
                                  ELSE [json_payload EXCEPT
                                           !.m[records_schema] = updated[1]]
                             ELSE json_payload
             IN  IF attach /\ \E i \in 1..Len(matches) : matches[i].t # "dict"
                 THEN [schema |-> sch1, payload |-> json_payload,
                       records |-> <<>>, exc |-> "AttributeError"]
                 ELSE [schema |-> sch1, payload |-> payload1,
                       records |-> IF matches = <<>> THEN <<payload1>> ELSE updated,
                       exc |-> ""]

\* Lines 150-220: the schema and the payload after the call, the candidate
\* records, and the exception if one leaves the method.
parse_records(sch, opts, json_payload) ==
    IF DOMAIN opts = {}
    THEN [schema |-> sch, payload |-> json_payload,
          records |-> <<json_payload>>, exc |-> ""]
    ELSE LET optional_keys ==
                 OptionsGet(opts, "optional_top_level_keys", EmptyOrderedDict)
             o == OptionalKeysLoop(sch, json_payload, optional_keys, 1)
         IN  IF o.exc # ""
             THEN [schema |-> o.schema, payload |-> o.payload,
                   records |-> <<>>, exc |-> o.exc]
             ELSE ExtractRecords(o.schema, opts, o.payload)

\* Lines 136-140: the loop over self.schema.iteritems() from item j on;
\* schema_match is overwritten by every nested schema that is not empty.
RECURSIVE SubkeyLoop(_, _, _, _)
SubkeyLoop(sch, json_record, j, schema_match) ==
    IF j > Len(sch.keys) THEN [match |-> schema_match, exc |-> ""]
    ELSE LET key == sch.keys[j]
             key_type == sch.types[key]
         IN  IF key_type.t = "dict" /\ key_type.keys # <<>>
             THEN IF json_record.m[key].t # "dict"
                  THEN [match |-> FALSE, exc |-> "AttributeError"]
                  ELSE SubkeyLoop(sch, json_record, j + 1,
                           DOMAIN json_record.m[key].m = SeqToSet(key_type.keys))
             ELSE SubkeyLoop(sch, json_record, j + 1, schema_match)

\* Lines 132-148: the loop over json_records from record i on.  schema_match
\* is set before the loop and keeps its value from one record to the next.
RECURSIVE KeyCheckLoop(_, _, _, _, _)
KeyCheckLoop(sch, json_records, i, schema_match, valid_records) ==
    IF i > Len(json_records) THEN [valid |-> valid_records, exc |-> ""]
    ELSE LET json_record == json_records[i]
         IN  IF json_record.t # "dict"
             THEN [valid |-> <<>>, exc |-> "AttributeError"]
             ELSE IF DOMAIN json_record.m = SeqToSet(sch.keys)
             THEN LET sub == SubkeyLoop(sch, json_record, 1, TRUE)
                  IN  IF sub.exc # "" THEN [valid |-> <<>>, exc |-> sub.exc]
                      ELSE KeyCheckLoop(sch, json_records, i + 1, sub.match,
                               IF sub.match THEN Append(valid_records, json_record)
                               ELSE valid_records)
             ELSE KeyCheckLoop(sch, json_records, i + 1, schema_match,
                      IF schema_match THEN Append(valid_records, json_record)
                      ELSE valid_records)

\* Lines 119-148.
key_check(sch, json_records) == KeyCheckLoop(sch, json_records, 1, FALSE, <<>>)

\* Lines 239-245 on a decoded payload.
ParseDecoded(sch, opts, json_payload) ==
    LET p == parse_records(sch, opts, json_payload)
        k == key_check(p.schema, p.records)
    IN  [schema |-> p.schema,
         payload |-> p.payload,
         result |-> IF p.exc # "" THEN Raise(p.exc)
                    ELSE IF k.exc # "" THEN Raise(k.exc)
                    ELSE IF Len(k.valid) > 0 THEN ReturnList(k.valid)
                    ELSE ReturnFalse]

\* Lines 222-245: the instance's schema, the caller's argument and the
\* outcome after parse(d).  A str is decoded to a structure of the call's
\* own; a decoded structure is the caller's.
JSONParser_parse(sch, opts, d) ==
    IF d.text /\ ~d.valid
    THEN [schema |-> sch, data |-> d, result |-> ReturnFalse]
    ELSE LET r == ParseDecoded(sch, opts, d.doc)
         IN  [schema |-> r.schema,
              data |-> IF d.text THEN d ELSE [d EXCEPT !.doc = r.payload],
              result |-> r.result]

\* The configurations: the schema and the options an instance is built with.
SchemaA == OrderedDictOf(<<"a">>, ("a" :> Primitive("string")))
SchemaNM == OrderedDictOf(<<"n", "m">>,
                ("n" :> NestedSchema(<<"x">>)) @@ ("m" :> NestedSchema(<<"y">>)))
SchemaAN == OrderedDictOf(<<"a", "n">>,
                ("a" :> Primitive("string")) @@ ("n" :> NestedSchema(<<"x">>)))

OptionalTypes ==
    {Primitive("string"), Primitive("integer"), Primitive("float"),
     Primitive("boolean"), ListMarker, NestedSchema(<<>>), NestedSchema(<<"x">>)}

OptOptional(od) == ("optional_top_level_keys" :> od)
OptJsonPath == ("json_path" :> "records")
OptEnvelope == ("envelope_keys" :> OrderedDictOf(<<"e">>, ("e" :> Primitive("string"))))

OneOptional(ty) == OptOptional(OrderedDictOf(<<"o">>, ("o" :> ty)))
TwoOptional ==
    OptOptional(OrderedDictOf(<<"o", "p">>,
        ("o" :> Primitive("integer")) @@ ("p" :> Primitive("string"))))

JsonConfigs ==
    {[schema |-> sch, options |-> EmptyDict] : sch \in {SchemaA, SchemaNM, SchemaAN}}
    \cup {[schema |-> SchemaA, options |-> OneOptional(ty)] : ty \in OptionalTypes}
    \cup {[schema |-> SchemaAN, options |-> OneOptional(Primitive("integer"))],
          [schema |-> SchemaA, options |-> TwoOptional],
          [schema |-> SchemaA, options |-> OptJsonPath],
          [schema |-> SchemaA, options |-> OptJsonPath @@ OptEnvelope],
          [schema |-> SchemaA,
           options |-> OneOptional(Primitive("integer")) @@ OptJsonPath @@ OptEnvelope]}

\* The payloads of a configuration: dicts over the fields the configuration
\* names and one it does not ("z"), and a JSON number.
HasNestedType(sch, opts, f) ==
    LET optional_keys == OptionsGet(opts, "optional_top_level_keys", EmptyOrderedDict)
    IN  \/ f \in DOMAIN sch.types /\ sch.types[f].t = "dict"
        \/ f \in DOMAIN optional_keys.types /\ optional_keys.types[f].t = "dict"

NestedValues ==
    {JDict([k \in ks |-> JStr("v")]) : ks \in SUBSET {"x", "y"}} \cup {JStr("v")}

\* The nested records under the json_path field.
NestedRecordChoices(sch) ==
    {JDict([k \in ks |-> JStr("v")]) :
        ks \in {SeqToSet(sch.keys), SeqToSet(sch.keys) \cup {"z"}, {}}}

RecordLists(sch) ==
    UNION {[1..n -> NestedRecordChoices(sch)] : n \in 0..MaxRecords}

FieldChoices(sch, opts, f) ==
    IF f = OptionsGet(opts, "json_path", "")
    THEN {JList(l) : l \in RecordLists(sch)}
    ELSE IF HasNestedType(sch, opts, f) THEN NestedValues
    ELSE {JStr("v")}

AllFields == <<"a", "n", "m", "o", "p", "e", "z", "records">>

FieldNamed(sch, opts, f) ==
    \/ f \in DOMAIN sch.types
    \/ f \in DOMAIN OptionsGet(opts, "optional_top_level_keys", EmptyOrderedDict).types
    \/ f \in DOMAIN OptionsGet(opts, "envelope_keys", EmptyOrderedDict).types
    \/ f = OptionsGet(opts, "json_path", "")
    \/ f = "z"

RECURSIVE DictsOver(_, _, _)
DictsOver(sch, opts, fs) ==
    IF fs = <<>> THEN {EmptyDict}
    ELSE LET rest == DictsOver(sch, opts, Tail(fs))
         IN  IF FieldNamed(sch, opts, Head(fs))
             THEN rest \cup {(Head(fs) :> v) @@ d :
                               d \in rest, v \in FieldChoices(sch, opts, Head(fs))}
             ELSE rest

JsonDocs(sch, opts) == {JDict(d) : d \in DictsOver(sch, opts, AllFields)} \cup {JInt("5")}

JsonInputs(sch, opts) ==
    {[text |-> t, valid |-> TRUE, doc |-> doc] : t \in BOOLEAN, doc \in JsonDocs(sch, opts)}
    \cup {[text |-> TRUE, valid |-> FALSE, doc |-> JNone]}

InitJSON ==
    /\ \E c \in JsonConfigs :
          /\ schema = c.schema
          /\ options = c.options
    /\ schema0 = schema
    /\ data = [text |-> TRUE, valid |-> FALSE, doc |-> JNone]
    /\ data_in = data
    /\ result = NoResult
    /\ fresh_result = NoResult
    /\ calls = 0
    /\ pc = "json"
    /\ fields = <<>>
    /\ index = 0
    /\ kv_payload = EmptyDict
    /\ record = EmptyDict
    /\ log_patterns = <<>>
    /\ matched = "none"

\* One call parse(d) on the instance; a new instance built from the same
\* schema and options parses the same argument beside it.
JSONParse ==
    /\ calls < MaxCalls
    /\ \E d \in JsonInputs(schema0, options) :
          LET r == JSONParser_parse(schema, options, d)
          IN  /\ schema' = r.schema
              /\ data' = r.data
              /\ result' = r.result
              /\ data_in' = d
              /\ fresh_result' = JSONParser_parse(schema0, options, d).result
    /\ calls' = calls + 1
    /\ pc' = "done"
    /\ UNCHANGED <<options, schema0, kvVars, patVars>>

NextJSON == JSONParse

SpecJSON == InitJSON /\ [][NextJSON]_vars

\* C1: a record is in the returned list only if its own top-level key set
\* equals the schema's key set, whatever the records before it were.
C1_PerRecordValidation ==
    (pc = "done" /\ result.kind = "list") =>
        \A i \in 1..Len(result.recs) :
            DOMAIN result.recs[i].m = SeqToSet(schema.keys)

\* C2: a returned record whose top-level key set equals the schema's has,
\* under every field whose type is a nested schema (with at least one
\* field), a dict whose key set equals that nested schema's key set.
C2_EveryNestedSchemaChecked ==
    (pc = "done" /\ result.kind = "list") =>
        \A i \in 1..Len(result.recs) :
            DOMAIN result.recs[i].m = SeqToSet(schema.keys) =>
                \A k \in SeqToSet(schema.keys) :
                    (schema.types[k].t = "dict" /\ schema.types[k].keys # <<>>) =>
                        /\ result.recs[i].m[k].t = "dict"
                        /\ DOMAIN result.recs[i].m[k].m = SeqToSet(schema.types[k].keys)

\* The default the specification gives for a declared type.
DeclaredDefault(ty) ==
    IF ty.t = "string" THEN JStr("")
    ELSE IF ty.t = "integer" THEN JInt("0")
    ELSE IF ty.t = "float" THEN JFloat("0.0")
    ELSE IF ty.t = "boolean" THEN JBool("False")
    ELSE IF ty.t = "list" THEN JList(<<>>)
    ELSE JDict(EmptyDict)

OptionalKeysOf(opts) == OptionsGet(opts, "optional_top_level_keys", EmptyOrderedDict)

\* The fields present in the payload hold, where the type is a nested schema
\* with at least one field, a dict of exactly that schema's keys.
PresentNestedFieldsMatch(payload, types) ==
    \A k \in DOMAIN payload \cap DOMAIN types :
        (types[k].t = "dict" /\ types[k].keys # <<>>) =>
            /\ payload[k].t = "dict"
            /\ DOMAIN payload[k].m = SeqToSet(types[k].keys)

\* C7: with optional_top_level_keys and no json_path, on every call: the
\* optional keys are merged into the schema, and a payload whose other keys
\* are the required keys comes back as exactly one record, in which every
\* optional key the payload lacks holds the default of its declared type.
C7_OptionalKeysDefaulted ==
    (/\ pc = "done"
     /\ OptionalKeysOf(options).keys # <<>>
     /\ "json_path" \notin DOMAIN options
     /\ data_in.doc.t = "dict") =>
        LET optional_keys == OptionalKeysOf(options)
            optional == SeqToSet(optional_keys.keys)
            required == SeqToSet(schema0.keys) \ optional
            payload == data_in.doc.m
        IN  /\ optional \subseteq SeqToSet(schema.keys)
            /\ (/\ DOMAIN payload \ optional = required
                /\ PresentNestedFieldsMatch(payload, schema0.types)
                /\ PresentNestedFieldsMatch(payload, optional_keys.types)) =>
                   /\ result.kind = "list"
                   /\ Len(result.recs) = 1
                   /\ DOMAIN result.recs[1].m = DOMAIN payload \cup optional
                   /\ \A k \in DOMAIN payload : result.recs[1].m[k] = payload[k]
                   /\ \A k \in optional \ DOMAIN payload :
                          result.recs[1].m[k] = DeclaredDefault(optional_keys.types[k])

\* C8: parse of an already decoded structure leaves the caller's structure
\* as it was, at the root and in every nested record.
C8_ParseLeavesArgumentUnchanged ==
    (pc = "done" /\ ~data_in.text) => data = data_in

\* The schema an instance is built with, extended by the entries its options
\* determine: every optional key, and stream_log_envelope when json_path and
\* envelope_keys are set.
RECURSIVE WithOptionalKeys(_, _, _)
WithOptionalKeys(sch, optional_keys, i) ==
    IF i > Len(optional_keys.keys) THEN sch
    ELSE WithOptionalKeys(
             OrderedDictUpdate(sch, optional_keys.keys[i],
                               optional_keys.types[optional_keys.keys[i]]),
             optional_keys, i + 1)

ExtendedSchema(sch, opts) ==
    LET s1 == WithOptionalKeys(sch, OptionalKeysOf(opts), 1)
        envelope_schema == OptionsGet(opts, "envelope_keys", EmptyOrderedDict)
    IN  IF "json_path" \in DOMAIN opts /\ envelope_schema.keys # <<>>
        THEN OrderedDictUpdate(s1, "stream_log_envelope",
                               NestedSchema(envelope_schema.keys))
        ELSE s1

\* The first half of C10 alone: parse of a text payload returns on a used
\* instance what it returns on a new one.
OutcomeIndependentOfHistory ==
    (pc = "done" /\ data_in.text) => result = fresh_result

\* C10: parse of a text payload returns on a used instance what it returns
\* on a new one, and after any call that decoded its payload the schema is
\* the initial schema extended by the entries the options determine.
C10_HistoryIndependent ==
    (pc = "done" /\ data_in.text) =>
        /\ result = fresh_result
        /\ data_in.valid => schema = ExtendedSchema(schema0, options)

====
